---- MODULE Spec2Model ----
(***************************************************************************)
(* A model of faststream's RabbitMQ LogicPublisher                          *)
(* (src/faststream/rabbit/publisher/usecase.py): setup, publish, request   *)
(* and add_prefix.                                                          *)
(*                                                                         *)
(* Python values are encoded as follows.  A str is a TLA+ string, None is  *)
(* the reserved token None, a list or tuple is a sequence, a dict is a     *)
(* function from keys to values.  A value is falsy when it is None, the    *)
(* empty string or the empty sequence.                                      *)
(*                                                                         *)
(* A call of publish or request is a coroutine.  Each call owns a slot of  *)
(* `calls'; its steps are the stretches of code between two suspension     *)
(* points, so that calls interleave exactly where the event loop lets      *)
(* them.                                                                    *)
(***************************************************************************)
EXTENDS Integers, Sequences, FiniteSets, TLC

\* ------------------------------------------------------------------ bounds

\* Number of publish/request calls made in one behaviour.
MaxCalls == 3

\* Number of calls in flight at a time in SpecConcurrent.
MaxInFlight == 2

\* Number of add_prefix applications in one behaviour of SpecPrefix.
MaxPrefixes == 3

\* The frames of the calls in flight.
Calls == 1..MaxInFlight

\* ---------------------------------------------------------- Python values

None == "<None>"

Truthy(x) == x # None /\ x # ""

\* Python's `a or b' on str/None operands.
Or(a, b) == IF Truthy(a) THEN a ELSE b

\* Python's `a or b' on sequences (an empty tuple or list is falsy).
SeqOr(a, b) == IF a # <<>> THEN a ELSE b

\* xs[::-1]
RECURSIVE Reversed(_)
Reversed(xs) == IF xs = <<>> THEN <<>> ELSE Reversed(Tail(xs)) \o <<Head(xs)>>

\* {**base, **over}: later layers win on key collision.
Merge(base, over) ==
    [k \in DOMAIN base \cup DOMAIN over |->
        IF k \in DOMAIN over THEN over[k] ELSE base[k]]

EmptyDict == [k \in {} |-> None]

\* The elements of a sequence.
Range(xs) == {xs[k] : k \in DOMAIN xs}

\* ------------------------------------------------------------ collaborators

\* Producers a broker can hand to setup.
Producers == {"p1", "p2"}

\* Errors a call can end with.
NotConnected == "AssertionError(NOT_CONNECTED_YET)"
Unreachable == "AssertionError(unreachable)"
RequestTimeout == "TimeoutError"
TransportError == "TransportError"
Cancelled == "CancelledError"
MiddlewareError == "MiddlewareError"
EnterError == "EnterError"
ExitError == "ExitError"
ParseError == "ParseError"
DecodeError == "DecodeError"
AttributeError == "AttributeError"

\* Names of the middlewares of the model.  A, B are publisher-level, G, H are
\* broker-level, X, Y are publish scopes handed over as `_extra_middlewares'.
PublisherLevel == <<"A", "B">>
BrokerLevel == <<"G", "H">>
Override == <<"X", "Y">>

\* What a middleware's publish_scope or consume_scope does with the call it
\* wraps: it calls it once and hands its outcome back unchanged, or it raises.
ScopeOutcomes == {"delegate", "raise"}

\* What a context's __aenter__ does.
EnterOutcomes == {"ok", "raise"}

\* What a context's __aexit__ does: return a falsy value, return a truthy value
\* (which suppresses the exception in flight), or raise; a cancellation that
\* reaches the call inside __aexit__ is a raise of CancelledError.
ExitOutcomes == {"ok", "suppress", "raise"}

\* faststream.broker.message.gen_cor_id: str(uuid4()), a fresh id on every call;
\* n calls of the publisher were made before.
GenCorId(n) == "uuid-" \o ToString(n + 1)

\* RabbitQueue.validate: a name becomes a descriptor, a descriptor is kept.
\* The argument is None, a str or a RabbitQueue, tagged to tell them apart.
NoQueue == [tag |-> "none", name |-> ""]
QueueName(n) == [tag |-> "str", name |-> n]
QueueObj(n) == [tag |-> "queue", name |-> n]
Validate(q) == [name |-> q.name]

\* The descriptor's derived routing.
Routing(d) == d.name

\* Truth value of a `queue' argument: None and "" are falsy, a descriptor object
\* is truthy.
QueueTruthy(q) == q.tag = "queue" \/ (q.tag = "str" /\ q.name # "")

\* What Producer.publish and Producer.request hand back or raise.
PublishOutcomes == {"ok", TransportError}
RequestOutcomes == {"reply", RequestTimeout, TransportError}

\* What Producer._parser and Producer._decoder do.
ParseOutcomes == {"ok", "raise"}

\* ------------------------------------------------------------------- state

Pubs == {"P", "Q"}

VARIABLES
    producer,            \* P._producer
    app_id,              \* P.app_id
    virtual_host,        \* P.virtual_host
    routing_key,         \* routing_key[p]: p.routing_key
    queue,               \* queue[p]: the descriptor object p.queue refers to
    objs,                \* the RabbitQueue objects: objs[r] is object r
    exchange,            \* P.exchange
    message_kwargs,      \* P.message_kwargs
    reply_to,            \* P.reply_to
    middlewares,         \* P._middlewares
    broker_middlewares,  \* P._broker_middlewares
    calls,               \* calls[c]: the frame of call c of P.publish/P.request
    started,             \* history: number of calls made so far
    overridden,          \* history: a call was made with _extra_middlewares
    last_setup,          \* history: the producer of the latest setup, or "never"
    prefixed,            \* history: prefixed[p], the prefixes added to p, in order
    sub                  \* the latest call of StreamSub(...): arguments and outcome

config == <<producer, app_id, virtual_host, routing_key, queue, objs, exchange,
            message_kwargs, reply_to, middlewares, broker_middlewares>>

vars == <<producer, app_id, virtual_host, routing_key, queue, objs, exchange,
          message_kwargs, reply_to, middlewares, broker_middlewares,
          calls, started, overridden, last_setup, prefixed, sub>>

\* The variables of the publisher.
publisher == <<producer, app_id, virtual_host, routing_key, queue, objs, exchange,
               message_kwargs, reply_to, middlewares, broker_middlewares,
               calls, started, overridden, last_setup, prefixed>>

\* The arguments of a call.
NoArgs == [routing_key |-> "", queue |-> NoQueue, exchange |-> None,
           correlation_id |-> None, extra |-> <<>>, publish_kwargs |-> EmptyDict]

\* A frame before its call is made.
IdleCall ==
    [pc |-> "idle", kind |-> None, args |-> NoArgs, kwargs |-> EmptyDict,
     chain |-> <<>>, i |-> 0, via |-> None, sent |-> EmptyDict,
     outcome |-> None, published |-> None, scope |-> <<>>, return_msg |-> <<>>,
     stack |-> <<>>, msg |-> [raw |-> None, parser |-> None, decoder |-> None,
                              source_type |-> None],
     returned |-> FALSE, result |-> None, exc |-> None, trace |-> <<>>,
     generated |-> FALSE, setup_seen |-> "never"]

\* PublisherUsecase.__init__: the publisher is constructed without a producer.
Unconfigured == None

\* LogicPublisher.__init__ for P and Q, both bound to the same RabbitQueue
\* object; reply_to is popped from the message options.
Construct(rk, mk) ==
    /\ producer = Unconfigured
    /\ app_id = None
    /\ virtual_host = ""
    /\ routing_key = [p \in Pubs |-> IF p = "P" THEN rk ELSE ""]
    /\ objs = <<[name |-> "orders"]>>
    /\ queue = [p \in Pubs |-> 1]
    /\ exchange = [name |-> "events"]
    /\ message_kwargs = [k \in DOMAIN mk \ {"reply_to"} |-> mk[k]]
    /\ reply_to = IF "reply_to" \in DOMAIN mk THEN mk["reply_to"] ELSE None
    /\ middlewares = PublisherLevel
    /\ broker_middlewares = BrokerLevel
    /\ calls = [c \in Calls |-> IdleCall]
    /\ started = 0
    /\ overridden = FALSE
    /\ last_setup = "never"
    /\ prefixed = [p \in Pubs |-> <<>>]

\* ------------------------------------------------------------- StreamSub

SetupError == "SetupError"

\* Truth value of an Optional[str] argument.
Set(x) == Truthy(x)

\* The default last-seen id: Redis's marker "$" for the latest entry of the
\* stream, after which only new entries are read.
Latest == "$"

\* The attributes of a StreamSub that was not constructed.
NoStreamSub ==
    [name |-> None, group |-> None, consumer |-> None, batch |-> FALSE,
     no_ack |-> FALSE, last_id |-> None]

\* No StreamSub(...) call was made.
NoSub ==
    [args |-> [stream |-> None, group |-> None, consumer |-> None,
               batch |-> FALSE, no_ack |-> FALSE, last_id |-> None],
     raised |-> None, warned |-> FALSE, self |-> NoStreamSub]

\* NameRequired.__init__: keeps the name.
NameRequiredInit(name) == name

\* The check of one side only: a consumer without a group is let through.
StreamSubInitOneSided(stream, group, consumer, batch, no_ack, last_id) ==
    IF Set(group) /\ ~Set(consumer)
    THEN [raised |-> SetupError, warned |-> FALSE, self |-> NoStreamSub]
    ELSE [raised |-> None,
          warned |-> (Set(group) /\ Set(consumer) /\ no_ack),
          self |-> [name |-> NameRequiredInit(stream), group |-> group,
                    consumer |-> consumer, batch |-> batch, no_ack |-> no_ack,
                    last_id |-> IF last_id = None THEN Latest ELSE last_id]]

\* StreamSub.__init__: what it raises, whether it warned, and the attributes
\* of the descriptor.
StreamSubInit(stream, group, consumer, batch, no_ack, last_id) ==
    IF (Set(group) /\ ~Set(consumer)) \/ (~Set(group) /\ Set(consumer))
    THEN [raised |-> SetupError, warned |-> FALSE, self |-> NoStreamSub]
    ELSE [raised |-> None,
          warned |-> (Set(group) /\ Set(consumer) /\ no_ack),
          self |-> [name |-> NameRequiredInit(stream), group |-> group,
                    consumer |-> consumer, batch |-> batch, no_ack |-> no_ack,
                    last_id |-> IF last_id = None THEN Latest ELSE last_id]]

\* A call of StreamSub(stream, group=..., consumer=..., ...).
StreamSub(stream, group, consumer, batch, no_ack, last_id) ==
    /\ sub' = [args |-> [stream |-> stream, group |-> group, consumer |-> consumer,
                         batch |-> batch, no_ack |-> no_ack, last_id |-> last_id]]
              @@ StreamSubInit(stream, group, consumer, batch, no_ack, last_id)
    /\ UNCHANGED publisher

Init == (\E rk \in {"", "bound.rk"} : Construct(rk, EmptyDict)) /\ sub = NoSub

\* PublisherUsecase.setup: keeps the producer it is given.
BaseSetup(p) == p

\* setup without the call of super().setup: the producer is not stored.
SetupWithoutSuper(p) ==
    /\ app_id' = "app"
    /\ virtual_host' = "/"
    /\ last_setup' = p
    /\ UNCHANGED <<producer, routing_key, queue, objs, exchange, message_kwargs,
                   reply_to, middlewares, broker_middlewares, calls, started,
                   overridden, prefixed, sub>>

\* LogicPublisher.setup
Setup(p) ==
    /\ app_id' = "app"
    /\ virtual_host' = "/"
    /\ producer' = BaseSetup(p)
    /\ last_setup' = p
    /\ UNCHANGED <<routing_key, queue, objs, exchange, message_kwargs, reply_to,
                   middlewares, broker_middlewares, calls, started, overridden,
                   prefixed, sub>>

\* --------------------------------------------------- publish and request

\* The assertion stripped: every value passes.
ConnectedUnchecked(p) == TRUE

\* `assert self._producer'
Connected(p) == Truthy(p)

\* The publisher's routing key tried before the call's.
ResolveRoutingKeyBoundFirst(rk, bound_rk, q, bound_q) ==
    Or(Or(bound_rk, rk), Routing(Validate(IF QueueTruthy(q) THEN q ELSE bound_q)))

\* routing_key or self.routing_key or RabbitQueue.validate(queue or self.queue).routing
ResolveRoutingKey(rk, bound_rk, q, bound_q) ==
    Or(Or(rk, bound_rk), Routing(Validate(IF QueueTruthy(q) THEN q ELSE bound_q)))

\* The id generated once, when the function is defined, as a default value.
CorrelationIdDefault(cid, n) == Or(cid, GenCorId(0))

\* The id handed on as given, never generated.
CorrelationIdAsGiven(cid, n) == cid

\* correlation_id or gen_cor_id()
CorrelationId(cid, n) == Or(cid, GenCorId(n))

\* The kwargs dict of publish.
PublishKwargs(a, n) ==
    Merge(Merge(
        [routing_key |-> ResolveRoutingKey(a.routing_key, routing_key["P"], a.queue,
                                           QueueObj(objs[queue["P"]].name)),
         exchange |-> Or(a.exchange, exchange.name),
         app_id |-> app_id,
         correlation_id |-> CorrelationId(a.correlation_id, n),
         message_id |-> None,
         timestamp |-> None,
         rpc |-> "False",
         rpc_timeout |-> "30.0",
         raise_timeout |-> "False",
         reply_to |-> reply_to],
        message_kwargs), a.publish_kwargs)

\* The kwargs dict of request.
RequestKwargs(a, n) ==
    Merge(Merge(
        [routing_key |-> ResolveRoutingKey(a.routing_key, routing_key["P"], a.queue,
                                           QueueObj(objs[queue["P"]].name)),
         exchange |-> Or(a.exchange, exchange.name),
         app_id |-> app_id,
         correlation_id |-> CorrelationId(a.correlation_id, n),
         message_id |-> None,
         timestamp |-> None],
        message_kwargs), a.publish_kwargs)

\* The loop over the lists as registered, without the [::-1].
WrapOrderUnreversed(mws, extra, bmws) == mws \o SeqOr(extra, bmws)

\* The override added to the broker-level middlewares instead of replacing them.
WrapOrderMerged(mws, extra, bmws) == Reversed(mws) \o extra \o Reversed(bmws)

\* The two arguments of chain(...) in the other order: the second tier wrapped
\* first, next to the producer.
WrapOrderTiersSwapped(mws, extra, bmws) == SeqOr(extra, Reversed(bmws)) \o Reversed(mws)

\* The middlewares in the order the loop wraps them around the producer's call.
WrapOrder(mws, extra, bmws) == Reversed(mws) \o SeqOr(extra, Reversed(bmws))

\* call = partial(m, call) for each m of the loop: the middleware wrapped last
\* is the outermost, so the calls run in the reverse of the wrap order.
ExecOrder(wrap) == Reversed(wrap)

\* The frame of a call after its synchronous prologue: the assertion, the
\* kwargs, the bound producer operation and the chain of partials.
Prologue(kind, a) ==
    IF ~Connected(producer)
    THEN [IdleCall EXCEPT !.pc = "done", !.kind = kind, !.args = a,
                          !.exc = NotConnected, !.setup_seen = last_setup]
    ELSE [IdleCall EXCEPT
            !.pc = "outbound", !.kind = kind, !.args = a,
            !.kwargs = IF kind = "publish" THEN PublishKwargs(a, started)
                                           ELSE RequestKwargs(a, started),
            !.chain = ExecOrder(WrapOrder(middlewares, a.extra, broker_middlewares)),
            !.i = 1, !.via = producer,
            !.generated = ~Truthy(a.correlation_id),
            !.setup_seen = last_setup]

\* The call's routing key kept on the publisher for the calls to come.
StartCallStoring(c, kind, a) ==
    /\ started < MaxCalls
    /\ calls[c].pc = "idle"
    /\ \A d \in Calls : d < c => calls[d].pc # "idle"
    /\ calls' = [calls EXCEPT ![c] = Prologue(kind, a)]
    /\ started' = started + 1
    /\ overridden' = (overridden \/ a.extra # <<>>)
    /\ routing_key' = [routing_key EXCEPT !["P"] = Or(a.routing_key, @)]
    /\ UNCHANGED <<producer, app_id, virtual_host, queue, objs, exchange,
                   message_kwargs, reply_to, middlewares, broker_middlewares,
                   last_setup, prefixed, sub>>

\* A call is made and runs in frame c, the first free one.
StartCall(c, kind, a) ==
    /\ started < MaxCalls
    /\ calls[c].pc = "idle"
    /\ \A d \in Calls : d < c => calls[d].pc # "idle"
    /\ calls' = [calls EXCEPT ![c] = Prologue(kind, a)]
    /\ started' = started + 1
    /\ overridden' = (overridden \/ a.extra # <<>>)
    /\ UNCHANGED <<config, last_setup, prefixed, sub>>

\* LogicPublisher.publish, up to its first suspension point.
Publish(c, a) == StartCall(c, "publish", a)

\* LogicPublisher.request, up to its first suspension point.
Request(c, a) == StartCall(c, "request", a)

\* An exception leaves the call.
Raise(f, e) == [f EXCEPT !.pc = "done", !.exc = e]

\* The next middleware of the outbound chain starts: it delegates to the call
\* it wraps, or raises.
PublishScope(c, o) ==
    LET f == calls[c]
        g == [f EXCEPT !.trace = Append(@, <<"publish_scope", f.chain[f.i]>>)] IN
    /\ f.pc = "outbound"
    /\ f.i <= Len(f.chain)
    /\ calls' = [calls EXCEPT ![c] =
                   IF o = "delegate" THEN [g EXCEPT !.i = @ + 1]
                                     ELSE Raise(g, MiddlewareError)]
    /\ UNCHANGED <<config, started, overridden, last_setup, prefixed, sub>>

\* The envelope kept on the publisher instead of in the call: the producer gets
\* the envelope the latest call in flight has built.
ProducerCallSharedEnvelope(c) ==
    LET f == calls[c]
        building == {d \in Calls : calls[d].pc \in {"outbound", "awaiting"}}
        latest == CHOOSE d \in building : \A e \in building : e <= d IN
    /\ f.pc = "outbound"
    /\ f.i = Len(f.chain) + 1
    /\ calls' = [calls EXCEPT ![c] =
                   [f EXCEPT !.pc = "awaiting", !.sent = calls[latest].kwargs,
                             !.trace = Append(@, <<"producer", f.kind>>)]]
    /\ UNCHANGED <<config, started, overridden, last_setup, prefixed, sub>>

\* The innermost call: the producer's publish or request gets the envelope.
ProducerCall(c) ==
    LET f == calls[c] IN
    /\ f.pc = "outbound"
    /\ f.i = Len(f.chain) + 1
    /\ calls' = [calls EXCEPT ![c] =
                   [f EXCEPT !.pc = "awaiting", !.sent = f.kwargs,
                             !.trace = Append(@, <<"producer", f.kind>>)]]
    /\ UNCHANGED <<config, started, overridden, last_setup, prefixed, sub>>

\* Every failure of the chain reported as a transport error.
PropagateAsTransport(e) == TransportError

\* No try/except surrounds the awaited chain: what it raises leaves the call
\* as it is.
Propagate(e) == e

\* The loop over the list as registered, without the [::-1].
ScopeOrderRegistered(bmws) == bmws

\* for m in self._broker_middlewares[::-1]
ScopeOrder(bmws) == Reversed(bmws)

\* return_msg = partial(mid.consume_scope, return_msg): mid becomes the
\* outermost consume scope.
WrapConsume(m, return_msg) == <<m>> \o return_msg

\* The end of `async with AsyncExitStack()': the pending exception is raised,
\* else the pending `return' completes, else control falls through to the
\* statement after the block, `raise AssertionError("unreachable")'.
Finish(f) ==
    IF f.exc # None THEN [f EXCEPT !.pc = "done"]
    ELSE IF f.returned THEN [f EXCEPT !.pc = "done", !.result = "message"]
    ELSE Raise(f, Unreachable)

\* An unwinding loop without a try around each callback: the first __aexit__
\* that raises ends it.
LeaveAtFirstError(f) ==
    IF f.stack # <<>> /\ f.exc # ExitError THEN [f EXCEPT !.pc = "exit"]
    ELSE IF f.exc # None THEN [f EXCEPT !.pc = "done"]
    ELSE IF f.returned THEN [f EXCEPT !.pc = "done", !.result = "message"]
    ELSE [f EXCEPT !.pc = "done", !.exc = Unreachable]

\* AsyncExitStack.__aexit__: while exit callbacks are left, the latest one is
\* popped and awaited, whatever the earlier ones did.
Leave(f) == IF f.stack # <<>> THEN [f EXCEPT !.pc = "exit"] ELSE Finish(f)

\* An exception raised inside the `async with' block.
RaiseInside(f, e) == Leave([f EXCEPT !.exc = e])

\* The first statement of the block after the loop over the contexts.
AfterEnter(f) ==
    IF f.i <= Len(f.scope) THEN f ELSE [f EXCEPT !.pc = "parse"]

\* return_msg(parsed_msg): the next consume scope, or return_input at the end,
\* whose value every scope hands back and the block returns.
AfterConsume(f) ==
    IF f.i <= Len(f.return_msg) THEN f
    ELSE Leave([f EXCEPT !.returned = TRUE])

\* The producer operation in a retry loop: after a transport error the
\* operation is invoked once more.
ProducerReturnRetry(c, o) ==
    LET f == calls[c]
        g == [f EXCEPT !.outcome = o]
        tries == Cardinality({k \in DOMAIN f.trace : f.trace[k] = <<"producer", f.kind>>}) IN
    /\ f.pc = "awaiting"
    /\ o \in IF f.kind = "publish" THEN PublishOutcomes ELSE RequestOutcomes
    /\ calls' = [calls EXCEPT ![c] =
          IF o = "ok"
            THEN [g EXCEPT !.pc = "done", !.returned = TRUE,
                           !.result = "ack:" \o f.via]
          ELSE IF o = "reply"
            THEN AfterEnter([g EXCEPT
                    !.pc = "enter", !.i = 1,
                    !.published = "reply:" \o f.sent["correlation_id"],
                    !.scope = ScopeOrder(broker_middlewares)])
          ELSE IF o = TransportError /\ tries < 2
            THEN [f EXCEPT !.trace = Append(@, <<"producer", f.kind>>)]
          ELSE Raise(g, Propagate(o))]
    /\ UNCHANGED <<config, started, overridden, last_setup, prefixed, sub>>

\* The override used for the consume scopes as well as for the publish scopes.
ProducerReturnOverrideScope(c, o) ==
    LET f == calls[c]
        g == [f EXCEPT !.outcome = o] IN
    /\ f.pc = "awaiting"
    /\ o \in IF f.kind = "publish" THEN PublishOutcomes ELSE RequestOutcomes
    /\ calls' = [calls EXCEPT ![c] =
          IF o = "ok"
            THEN [g EXCEPT !.pc = "done", !.returned = TRUE,
                           !.result = "ack:" \o f.via]
          ELSE IF o = "reply"
            THEN AfterEnter([g EXCEPT
                    !.pc = "enter", !.i = 1,
                    !.published = "reply:" \o f.sent["correlation_id"],
                    !.scope = SeqOr(f.args.extra, ScopeOrder(broker_middlewares))])
          ELSE Raise(g, Propagate(o))]
    /\ UNCHANGED <<config, started, overridden, last_setup, prefixed, sub>>

\* The awaited producer operation completes, and with it the whole outbound
\* chain.  publish returns its result; request goes on, without suspending,
\* to the first context of the scoped block.
ProducerReturn(c, o) ==
    LET f == calls[c]
        g == [f EXCEPT !.outcome = o] IN
    /\ f.pc = "awaiting"
    /\ o \in IF f.kind = "publish" THEN PublishOutcomes ELSE RequestOutcomes
    /\ calls' = [calls EXCEPT ![c] =
          IF o = "ok"
            THEN [g EXCEPT !.pc = "done", !.returned = TRUE,
                           !.result = "ack:" \o f.via]
          ELSE IF o = "reply"
            THEN AfterEnter([g EXCEPT
                    !.pc = "enter", !.i = 1,
                    !.published = "reply:" \o f.sent["correlation_id"],
                    !.scope = ScopeOrder(broker_middlewares)])
          ELSE Raise(g, Propagate(o))]
    /\ UNCHANGED <<config, started, overridden, last_setup, prefixed, sub>>

\* mid = m(published_msg); await stack.enter_async_context(mid)
EnterContext(c, o) ==
    LET f == calls[c]
        m == f.scope[f.i] IN
    /\ f.pc = "enter"
    /\ calls' = [calls EXCEPT ![c] =
          IF o = "ok"
            THEN AfterEnter([f EXCEPT
                    !.stack = Append(@, m),
                    !.return_msg = WrapConsume(m, @),
                    !.i = @ + 1,
                    !.trace = Append(@, <<"enter", m>>)])
            ELSE RaiseInside(f, EnterError)]
    /\ UNCHANGED <<config, started, overridden, last_setup, prefixed, sub>>

\* parsed_msg = await self._producer._parser(published_msg)
Parse(c, o) ==
    LET f == calls[c] IN
    /\ f.pc = "parse"
    /\ calls' = [calls EXCEPT ![c] =
          IF producer = None THEN RaiseInside(f, AttributeError)
          ELSE IF o = "ok"
            THEN [f EXCEPT !.pc = "decode",
                           !.msg = [@ EXCEPT !.raw = f.published,
                                             !.parser = producer],
                           !.trace = Append(@, <<"parse", producer>>)]
            ELSE RaiseInside(f, ParseError)]
    /\ UNCHANGED <<config, started, overridden, last_setup, prefixed, sub>>

\* The decoded message handed to the inbound chain without its source type set.
DecodeUntagged(c, o) ==
    LET f == calls[c] IN
    /\ f.pc = "decode"
    /\ calls' = [calls EXCEPT ![c] =
          IF producer = None THEN RaiseInside(f, AttributeError)
          ELSE IF o = "ok"
            THEN AfterConsume([f EXCEPT
                    !.pc = "inbound", !.i = 1,
                    !.msg = [@ EXCEPT !.decoder = producer],
                    !.trace = Append(@, <<"decode", producer>>)])
            ELSE RaiseInside(f, DecodeError)]
    /\ UNCHANGED <<config, started, overridden, last_setup, prefixed, sub>>

\* parsed_msg._decoded_body = await self._producer._decoder(parsed_msg)
\* parsed_msg._source_type = SourceType.Response
\* and the call of return_msg, up to the first consume scope.
Decode(c, o) ==
    LET f == calls[c] IN
    /\ f.pc = "decode"
    /\ calls' = [calls EXCEPT ![c] =
          IF producer = None THEN RaiseInside(f, AttributeError)
          ELSE IF o = "ok"
            THEN AfterConsume([f EXCEPT
                    !.pc = "inbound", !.i = 1,
                    !.msg = [@ EXCEPT !.decoder = producer,
                                      !.source_type = "Response"],
                    !.trace = @ \o <<<<"decode", producer>>,
                                     <<"tag", "Response">>>>])
            ELSE RaiseInside(f, DecodeError)]
    /\ UNCHANGED <<config, started, overridden, last_setup, prefixed, sub>>

\* The next consume scope of the inbound chain starts: it delegates, or raises.
ConsumeScope(c, o) ==
    LET f == calls[c]
        g == [f EXCEPT !.trace = Append(@, <<"consume_scope", f.return_msg[f.i]>>)] IN
    /\ f.pc = "inbound"
    /\ calls' = [calls EXCEPT ![c] =
          IF o = "delegate" THEN AfterConsume([g EXCEPT !.i = @ + 1])
                            ELSE RaiseInside(g, MiddlewareError)]
    /\ UNCHANGED <<config, started, overridden, last_setup, prefixed, sub>>

\* The exception in flight after an exit callback did o.
AfterExit(exc, o) ==
    CASE o = "ok" -> exc
      [] o = "suppress" -> None
      [] o = "raise" -> ExitError

\* The latest entered context is popped and its __aexit__ awaited.
ExitContext(c, o) ==
    LET f == calls[c]
        n == Len(f.stack) IN
    /\ f.pc = "exit"
    /\ calls' = [calls EXCEPT ![c] =
          Leave([f EXCEPT !.stack = SubSeq(@, 1, n - 1),
                          !.exc = AfterExit(@, o),
                          !.trace = Append(@, <<"exit", f.stack[n]>>)])]
    /\ UNCHANGED <<config, started, overridden, last_setup, prefixed, sub>>

\* The task running call c is cancelled while the call is suspended:
\* CancelledError is raised at the await the call is waiting in.
Cancel(c) ==
    LET f == calls[c] IN
    /\ f.pc \in {"outbound", "awaiting", "enter", "parse", "decode", "inbound"}
    /\ calls' = [calls EXCEPT ![c] =
          IF f.pc \in {"outbound", "awaiting"} THEN Raise(f, Cancelled)
                                               ELSE RaiseInside(f, Cancelled)]
    /\ UNCHANGED <<config, started, overridden, last_setup, prefixed, sub>>

\* LogicPublisher.routing
PublisherRouting(p) == Or(routing_key[p], Routing(objs[queue[p]]))

\* add_prefix without the copy: the bound RabbitQueue is renamed in place.
AddPrefixInPlace(p, prefix) ==
    /\ Len(prefixed["P"]) + Len(prefixed["Q"]) < MaxPrefixes
    /\ objs' = [objs EXCEPT ![queue[p]].name = prefix \o @]
    /\ prefixed' = [prefixed EXCEPT ![p] = Append(@, prefix)]
    /\ UNCHANGED <<producer, app_id, virtual_host, routing_key, queue, exchange,
                   message_kwargs, reply_to, middlewares, broker_middlewares,
                   calls, started, overridden, last_setup, sub>>

\* LogicPublisher.add_prefix: deepcopy allocates a new RabbitQueue, which is
\* renamed and bound to the publisher.
AddPrefix(p, prefix) ==
    LET new_q == [objs[queue[p]] EXCEPT !.name = prefix \o @] IN
    /\ Len(prefixed["P"]) + Len(prefixed["Q"]) < MaxPrefixes
    /\ objs' = Append(objs, new_q)
    /\ queue' = [queue EXCEPT ![p] = Len(objs) + 1]
    /\ prefixed' = [prefixed EXCEPT ![p] = Append(@, prefix)]
    /\ UNCHANGED <<producer, app_id, virtual_host, routing_key, exchange,
                   message_kwargs, reply_to, middlewares, broker_middlewares,
                   calls, started, overridden, last_setup, sub>>

\* The caller gets the result or the exception of call c; its frame is gone.
Return(c) ==
    /\ calls[c].pc = "done"
    /\ calls' = [calls EXCEPT ![c] = IdleCall]
    /\ UNCHANGED <<config, started, overridden, last_setup, prefixed, sub>>

\* -------------------------------------------------------- specifications

\* One step of the publisher: setup by the broker, or a step of a call in one
\* of the frames F, with arguments from A and the collaborators behaving as
\* the outcome sets say.
Step(F, A, P, scopeO, enterO, parseO, exitO, prodO) ==
    \/ \E p \in P : Setup(p)
    \/ \E c \in F, a \in A : Publish(c, a)
    \/ \E c \in F, a \in A : Request(c, a)
    \/ \E c \in F, o \in scopeO : PublishScope(c, o)
    \/ \E c \in F : ProducerCall(c)
    \/ \E c \in F, o \in prodO : ProducerReturn(c, o)
    \/ \E c \in F, o \in enterO : EnterContext(c, o)
    \/ \E c \in F, o \in parseO : Parse(c, o)
    \/ \E c \in F, o \in parseO : Decode(c, o)
    \/ \E c \in F, o \in scopeO : ConsumeScope(c, o)
    \/ \E c \in F, o \in exitO : ExitContext(c, o)
    \/ \E c \in F : Return(c)

\* The arguments of the calls of Spec.
CallArgs ==
    {[NoArgs EXCEPT !.routing_key = rk, !.correlation_id = cid, !.extra = ex] :
        rk \in {"", "call.rk"}, cid \in {None, "c1"}, ex \in {<<>>, Override}}

\* Calls made one after the other, each awaited before the next is made, with
\* every behaviour of the middlewares, the contexts and the producer, and
\* cancellation.
Next ==
    \/ Step({1}, CallArgs, Producers \cup {None}, ScopeOutcomes, EnterOutcomes,
            ParseOutcomes, ExitOutcomes, PublishOutcomes \cup RequestOutcomes)
    \/ Cancel(1)

Spec == Init /\ [][Next]_vars

\* The stored message options of SpecEnvelope: PublishKwargs dicts.
StoredOptions ==
    {EmptyDict, [priority |-> "1"], [priority |-> "1", reply_to |-> "replies"]}

\* The arguments of the calls of SpecEnvelope: every way to give or leave out
\* the routing key, the queue (None, an empty name, a name, a RabbitQueue) and
\* the correlation id, with per-call options that add to or collide with the
\* stored ones.
EnvelopeArgs ==
    {[NoArgs EXCEPT !.routing_key = rk, !.queue = q, !.correlation_id = cid,
                    !.publish_kwargs = pk] :
        rk \in {"", "call.rk"},
        q \in {NoQueue, QueueName(""), QueueName("call.q"), QueueObj("call.obj")},
        cid \in {None, "", "c1"},
        pk \in {EmptyDict, [priority |-> "9"], [priority |-> "9", timeout |-> "5"]}}

InitEnvelope ==
    (\E rk \in {"", "bound.rk"}, mk \in StoredOptions : Construct(rk, mk)) /\ sub = NoSub

\* Calls made one after the other with every combination of arguments and
\* stored configuration; the collaborators do not fail.
NextEnvelope ==
    Step({1}, EnvelopeArgs, {"p1"}, {"delegate"}, {"ok"}, {"ok"}, {"ok"},
         {"ok", "reply"})

SpecEnvelope == InitEnvelope /\ [][NextEnvelope]_vars

\* The arguments of the calls of SpecConcurrent: nothing given, or a routing
\* key and a correlation id.
ConcurrentArgs ==
    {NoArgs, [NoArgs EXCEPT !.routing_key = "call.rk", !.correlation_id = "c1"]}

\* Up to MaxInFlight calls in flight at a time, interleaved at their suspension
\* points; the collaborators do not fail.
NextConcurrent ==
    Step(Calls, ConcurrentArgs, {"p1"}, {"delegate"}, {"ok"}, {"ok"}, {"ok"},
         {"ok", "reply"})

\* The publisher of SpecConcurrent is bound to a routing key.
InitConcurrent == Construct("bound.rk", EmptyDict) /\ sub = NoSub

SpecConcurrent == InitConcurrent /\ [][NextConcurrent]_vars

\* The prefixes of the routers of SpecPrefix.
Prefixes == {"x.", "y."}

NextPrefix == \E p \in Pubs, x \in Prefixes : AddPrefix(p, x)

\* Publishers included in routers, before any traffic.
SpecPrefix == Init /\ [][NextPrefix]_vars

\* The broker-level middlewares of SpecScopes.
ScopedLevel == <<"G", "H", "K">>

\* A publisher of a broker with three middlewares and none of its own.
InitScopes ==
    /\ producer = Unconfigured
    /\ app_id = None
    /\ virtual_host = ""
    /\ routing_key = [p \in Pubs |-> ""]
    /\ objs = <<[name |-> "orders"]>>
    /\ queue = [p \in Pubs |-> 1]
    /\ exchange = [name |-> "events"]
    /\ message_kwargs = EmptyDict
    /\ reply_to = None
    /\ middlewares = <<>>
    /\ broker_middlewares = ScopedLevel
    /\ calls = [c \in Calls |-> IdleCall]
    /\ started = 0
    /\ overridden = FALSE
    /\ last_setup = "never"
    /\ prefixed = [p \in Pubs |-> <<>>]
    /\ sub = NoSub

\* The arguments of the calls of SpecScopes: nothing given, or an override.
ScopesArgs == {NoArgs, [NoArgs EXCEPT !.extra = Override]}

\* Calls made one after the other through three contexts, with every
\* behaviour of the middlewares, the contexts, the parser and the decoder, and
\* cancellation; the producer does not fail.
NextScopes ==
    \/ Step({1}, ScopesArgs, Producers, {"delegate", "raise"}, EnterOutcomes,
            ParseOutcomes, ExitOutcomes, {"ok", "reply"})
    \/ Cancel(1)

SpecScopes == InitScopes /\ [][NextScopes]_vars

\* The values of an Optional[str] argument of StreamSub: left out, empty, given.
OptionalStr(x) == {None, "", x}

\* The ids of SpecStream: left out, empty, the first entry, the markers "$"
\* and ">".
LastIds == {None, "", "0", "$", ">"}

\* Descriptors constructed one after the other, from every combination of the
\* arguments.
NextStream ==
    \E stream \in {"s1", "s2"}, group \in OptionalStr("g"),
       consumer \in OptionalStr("c"), batch \in BOOLEAN, no_ack \in BOOLEAN,
       last_id \in LastIds :
        StreamSub(stream, group, consumer, batch, no_ack, last_id)

SpecStream == Init /\ [][NextStream]_vars

\* ------------------------------------------------------------------ claims

\* Event e happens in trace tr, and event e1 before event e2.
Has(tr, e) == \E k \in DOMAIN tr : tr[k] = e
Before(tr, e1, e2) == \E k, l \in DOMAIN tr : k < l /\ tr[k] = e1 /\ tr[l] = e2
Count(tr, e) == Cardinality({k \in DOMAIN tr : tr[k] = e})

\* The frames whose call has been made.
Made == {c \in Calls : calls[c].pc # "idle"}

\* The outbound chain of frame f reached the producer: every middleware of the
\* chain delegated.
ReachedProducer(f) == Has(f.trace, <<"producer", f.kind>>)

\* The lists of registered middlewares that the outbound chain of frame f is
\* built from.
RegisteredLists(f) ==
    {middlewares} \cup (IF f.args.extra = <<>> THEN {broker_middlewares} ELSE {})

\* C1 as stated: of two middlewares registered in the order A, B, the call
\* runs B before A, and A before the producer's operation.
C1_LastRegisteredFirst ==
    \A c \in Made : ReachedProducer(calls[c]) =>
        \A ms \in RegisteredLists(calls[c]) : \A a, b \in DOMAIN ms : a < b =>
            /\ Before(calls[c].trace, <<"publish_scope", ms[b]>>, <<"publish_scope", ms[a]>>)
            /\ Before(calls[c].trace, <<"publish_scope", ms[a]>>, <<"producer", calls[c].kind>>)

\* C1, amended: of two middlewares registered in the order A, B in one list,
\* the call runs A before B, and B before the producer's operation: the
\* first-registered middleware is the outermost, the producer the innermost.
C1_FirstRegisteredFirst ==
    \A c \in Made : ReachedProducer(calls[c]) =>
        \A ms \in RegisteredLists(calls[c]) : \A a, b \in DOMAIN ms : a < b =>
            /\ Before(calls[c].trace, <<"publish_scope", ms[a]>>, <<"publish_scope", ms[b]>>)
            /\ Before(calls[c].trace, <<"publish_scope", ms[b]>>, <<"producer", calls[c].kind>>)

\* A request without override has run both registered lists and its producer.
C1_Witness ==
    \E c \in Made :
        /\ calls[c].kind = "request" /\ calls[c].args.extra = <<>>
        /\ ReachedProducer(calls[c])
        /\ Has(calls[c].trace, <<"publish_scope", "A">>)
        /\ Has(calls[c].trace, <<"publish_scope", "H">>)

\* C2: when a request whose producer replied is over, every consume-scope
\* context it entered has been exited exactly once, none is left on the stack
\* and none was exited without being entered.
C2_ContextsReleased ==
    \A c \in Made :
        (calls[c].kind = "request" /\ calls[c].outcome = "reply" /\ calls[c].pc = "done") =>
            /\ calls[c].stack = <<>>
            /\ \A m \in Range(broker_middlewares) :
                 /\ Count(calls[c].trace, <<"enter", m>>) <= 1
                 /\ Count(calls[c].trace, <<"exit", m>>) = Count(calls[c].trace, <<"enter", m>>)

\* A request is over with an exception raised by an __aexit__, after it
\* entered both contexts.
C2_Witness ==
    \E c \in Made :
        /\ calls[c].kind = "request" /\ calls[c].pc = "done"
        /\ calls[c].exc = ExitError
        /\ Has(calls[c].trace, <<"enter", "G">>)
        /\ Has(calls[c].trace, <<"enter", "H">>)
        /\ Has(calls[c].trace, <<"parse", "p1">>)

\* C3: a call made before any setup is over at once with the not-connected
\* assertion error; it ran no middleware, no producer operation and entered no
\* context.
C3_FailsFastBeforeSetup ==
    \A c \in Made : calls[c].setup_seen = "never" =>
        /\ calls[c].pc = "done"
        /\ calls[c].exc = NotConnected
        /\ calls[c].trace = <<>>
        /\ calls[c].stack = <<>>
        /\ calls[c].sent = EmptyDict

\* A request was made before any setup.
C3_Witness ==
    \E c \in Made : calls[c].setup_seen = "never" /\ calls[c].kind = "request"

\* C4 as stated: no call made after a setup fails with the not-connected error.
C4_NoNotConnectedAfterSetup ==
    \A c \in Made : calls[c].setup_seen # "never" => calls[c].exc # NotConnected

\* C4, amended: no call made when the latest setup handed over a producer
\* fails with the not-connected error.
C4_NoNotConnectedAfterProducer ==
    \A c \in Made : calls[c].setup_seen \in Producers => calls[c].exc # NotConnected

\* A call made after a setup that handed over producer p2 ran with it and is over.
C4_Witness ==
    \E c \in Made :
        /\ calls[c].setup_seen = "p2" /\ calls[c].via = "p2"
        /\ calls[c].pc = "done" /\ app_id = "app"

\* C5: a request whose producer timed out is over with the timeout error, which
\* is not the transport error, and it entered no consume-scope context.
C5_TimeoutPropagates ==
    \A c \in Made :
        (calls[c].kind = "request" /\ calls[c].outcome = RequestTimeout) =>
            /\ calls[c].pc = "done"
            /\ calls[c].exc = RequestTimeout
            /\ calls[c].exc # TransportError
            /\ calls[c].stack = <<>>
            /\ \A m \in Range(broker_middlewares) : ~Has(calls[c].trace, <<"enter", m>>)

\* A request went through its whole outbound chain and timed out.
C5_Witness ==
    \E c \in Made :
        /\ calls[c].kind = "request" /\ calls[c].outcome = RequestTimeout
        /\ Has(calls[c].trace, <<"publish_scope", "B">>)

\* The requests in flight that have handed their envelope to the producer.
InFlightRequests ==
    {c \in Made : calls[c].kind = "request" /\ calls[c].pc # "done"
                  /\ ReachedProducer(calls[c])}

\* C6 as stated: no two requests in flight have handed the same correlation id
\* to the producer.
C6_UniqueInFlight ==
    \A c, d \in InFlightRequests :
        c # d => calls[c].sent["correlation_id"] # calls[d].sent["correlation_id"]

\* C6, amended: no two requests in flight whose correlation ids were both
\* generated have handed the same id to the producer, and an id the caller
\* supplied is handed on as it is (two callers that supply the same id share it).
C6_UniqueGeneratedInFlight ==
    /\ \A c, d \in InFlightRequests :
         (c # d /\ calls[c].generated /\ calls[d].generated) =>
             calls[c].sent["correlation_id"] # calls[d].sent["correlation_id"]
    /\ \A c \in InFlightRequests :
         ~calls[c].generated =>
             calls[c].sent["correlation_id"] = calls[c].args.correlation_id

\* Two requests with generated ids are in flight, both past the producer call.
C6_Witness ==
    \E c, d \in InFlightRequests :
        c # d /\ calls[c].generated /\ calls[d].generated

\* C7: every envelope handed to the producer carries a non-empty correlation
\* id: the caller's if a non-empty one was supplied, a generated one otherwise,
\* whatever the stored and the per-call options are.
C7_CorrelationIdSet ==
    \A c \in Made : ReachedProducer(calls[c]) =>
        LET cid == calls[c].sent["correlation_id"]
            given == calls[c].args.correlation_id IN
        /\ cid # None /\ cid # ""
        /\ (given # None /\ given # "") => cid = given
        /\ (given = None \/ given = "") => cid \in {GenCorId(n) : n \in 0..MaxCalls}

\* An envelope built from stored options, per-call options that collide with
\* them and an empty correlation id has reached the producer.
C7_Witness ==
    \E c \in Made :
        /\ ReachedProducer(calls[c])
        /\ calls[c].args.correlation_id = ""
        /\ "priority" \in DOMAIN message_kwargs
        /\ "priority" \in DOMAIN calls[c].args.publish_kwargs
        /\ calls[c].sent["priority"] = "9"

\* C8: the routing key handed to the producer is the call's routing key if
\* given, else the publisher's if set, else the routing of the call's queue if
\* given, else the routing of the publisher's queue (given: not None, not "").
C8_RoutingPrecedence ==
    \A c \in Made : ReachedProducer(calls[c]) =>
        LET a == calls[c].args IN
        calls[c].sent["routing_key"] =
            IF a.routing_key # "" THEN a.routing_key
            ELSE IF routing_key["P"] # "" THEN routing_key["P"]
            ELSE IF a.queue.tag = "queue" \/ (a.queue.tag = "str" /\ a.queue.name # "")
                 THEN a.queue.name
            ELSE objs[queue["P"]].name

\* With no routing key on the call or the publisher, the call's queue decided.
C8_Witness ==
    \E c \in Made :
        /\ ReachedProducer(calls[c])
        /\ calls[c].args.routing_key = "" /\ routing_key["P"] = ""
        /\ calls[c].args.queue = QueueName("call.q")
        /\ calls[c].sent["routing_key"] = "call.q"

\* The names in a trace of the middlewares whose publish_scope started.
PublishScopes(tr) == {tr[k][2] : k \in {l \in DOMAIN tr : tr[l][1] = "publish_scope"}}

\* C9 as stated: in a call with an override no broker-level middleware runs.
C9_NoBrokerMiddlewareRuns ==
    \A c \in Made : calls[c].args.extra # <<>> =>
        \A k \in DOMAIN calls[c].trace :
            calls[c].trace[k][2] \notin Range(broker_middlewares)

\* C9, amended: the outbound chain of a call with a non-empty override is made
\* of the publisher-level middlewares and the override, and no publish scope of
\* a broker-level middleware runs in it (the consume scopes of a request still
\* run); the chain of a call without override is made of the publisher-level
\* and the broker-level middlewares, whatever the earlier calls supplied; the
\* publisher's own lists stay as registered.
C9_OverrideReplacesOutboundTier ==
    /\ middlewares = PublisherLevel
    /\ broker_middlewares = BrokerLevel
    /\ \A c \in Made : calls[c].exc # NotConnected =>
         LET f == calls[c]
             second == IF f.args.extra # <<>> THEN f.args.extra ELSE broker_middlewares IN
         /\ Len(f.chain) = Len(middlewares) + Len(second)
         /\ Range(f.chain) = Range(middlewares) \cup Range(second)
         /\ PublishScopes(f.trace) \subseteq Range(f.chain)

\* After a call with an override, a call without one ran a broker-level
\* publish scope.
C9_Witness ==
    /\ overridden
    /\ \E c \in Made :
         /\ calls[c].args.extra = <<>>
         /\ "G" \in PublishScopes(calls[c].trace)
         /\ ReachedProducer(calls[c])

\* The name of a queue called name after the prefixes xs were added in order.
RECURSIVE WithPrefixes(_, _)
WithPrefixes(xs, name) ==
    IF xs = <<>> THEN name ELSE WithPrefixes(Tail(xs), Head(xs) \o name)

\* C10: add_prefix is copy-on-write.  The queue of a publisher is named by the
\* prefixes added to that publisher alone, and so is its routing; a prefixed
\* publisher has a queue object of its own; the original object keeps its
\* name, and a publisher never prefixed keeps the original object.
C10_CopyOnWrite ==
    /\ objs[1].name = "orders"
    /\ \A p \in Pubs :
         /\ objs[queue[p]].name = WithPrefixes(prefixed[p], "orders")
         /\ Routing(objs[queue[p]]) = WithPrefixes(prefixed[p], "orders")
         /\ prefixed[p] = <<>> => queue[p] = 1
         /\ prefixed[p] # <<>> => \A q \in Pubs \ {p} : queue[q] # queue[p]

\* P was prefixed twice and Q, which shared P's queue, not at all.
C10_Witness ==
    /\ prefixed["P"] = <<"x.", "y.">>
    /\ prefixed["Q"] = <<>>
    /\ Routing(objs[queue["P"]]) = "y.x.orders"
    /\ PublisherRouting("Q") = "orders"

\* The failures Producer.publish and Producer.request raise.
ProducerErrors == {TransportError, RequestTimeout}

\* C11: the core neither retries nor translates.  No call invokes the
\* producer's operation or starts a middleware of its outbound chain more than
\* once; a call that is over without an exception, or whose producer operation
\* completed, invoked it exactly once; a call whose producer operation raised
\* is over with that very error; a publish whose producer operation succeeded
\* is over with the producer's result.
C11_NoRetryNoTranslation ==
    \A c \in Made :
        LET f == calls[c] IN
        /\ Count(f.trace, <<"producer", f.kind>>) <= 1
        /\ \A m \in Range(f.chain) : Count(f.trace, <<"publish_scope", m>>) <= 1
        /\ (f.pc = "done" /\ f.exc = None) => Count(f.trace, <<"producer", f.kind>>) = 1
        /\ f.outcome # None => Count(f.trace, <<"producer", f.kind>>) = 1
        /\ f.outcome \in ProducerErrors => (f.pc = "done" /\ f.exc = f.outcome
                                             /\ f.result = None)
        /\ (f.kind = "publish" /\ f.outcome = "ok") =>
              (f.pc = "done" /\ f.exc = None /\ f.result = "ack:" \o f.via)

\* A publish went through its whole chain and its producer raised the
\* transport error; the one before it returned the producer's result.
C11_Witness ==
    /\ started >= 2
    /\ \E c \in Made :
         /\ calls[c].kind = "publish" /\ calls[c].outcome = TransportError
         /\ Has(calls[c].trace, <<"publish_scope", "A">>)
         /\ Has(calls[c].trace, <<"publish_scope", "G">>)

\* The events tag(x) for the elements x of xs, in order.
Events(tag, xs) == [k \in DOMAIN xs |-> <<tag, xs[k]>>]

\* Sequence s is the beginning of sequence t.
IsPrefix(s, t) == Len(s) <= Len(t) /\ s = SubSeq(t, 1, Len(s))

\* What the call of frame f does when it runs alone and nothing fails: the
\* second tier and then the publisher-level middlewares as registered, the
\* producer, and for a request the contexts entered from the last registered
\* to the first, parse, decode, tag, the consume scopes and the exits.
AloneTrace(f) ==
    Events("publish_scope",
           (IF f.args.extra # <<>> THEN Reversed(f.args.extra) ELSE broker_middlewares)
           \o middlewares)
    \o <<<<"producer", f.kind>>>>
    \o (IF f.kind = "request"
        THEN Events("enter", Reversed(broker_middlewares))
             \o << <<"parse", f.via>>, <<"decode", f.via>>, <<"tag", "Response">> >>
             \o Events("consume_scope", broker_middlewares)
             \o Events("exit", broker_middlewares)
        ELSE <<>>)

\* The contexts the trace tr has entered and not exited, in the order entered.
OpenContexts(tr) ==
    LET entered == SelectSeq(tr, LAMBDA e : e[1] = "enter")
        exited == {tr[k][2] : k \in {l \in DOMAIN tr : tr[l][1] = "exit"}}
        open == SelectSeq(entered, LAMBDA e : e[2] \notin exited) IN
    [k \in DOMAIN open |-> open[k][2]]

\* C12: whatever the other calls in flight do, a call runs its steps in the
\* order it runs them alone; the contexts on its stack are those it entered and
\* has not exited, for the reply to its own request; and the envelope it hands
\* to the producer carries the routing key resolved from its own arguments and
\* its own correlation id: the one it was given, or a generated one that no
\* other call in flight carries.
C12_CallsIndependent ==
    \A c \in Made :
        LET f == calls[c]
            alone == AloneTrace(f) IN
        /\ IsPrefix(f.trace, alone)
        /\ f.stack = OpenContexts(f.trace)
        /\ f.published # None => f.published = "reply:" \o f.sent["correlation_id"]
        /\ f.msg.raw \in {None, f.published}
        /\ ReachedProducer(f) =>
             /\ f.sent["routing_key"] =
                  IF f.args.routing_key # "" THEN f.args.routing_key
                  ELSE IF routing_key["P"] # "" THEN routing_key["P"]
                  ELSE objs[queue["P"]].name
             /\ f.args.correlation_id # None =>
                  f.sent["correlation_id"] = f.args.correlation_id
             /\ f.args.correlation_id = None =>
                  \A d \in Made \ {c} : ReachedProducer(calls[d]) =>
                      calls[d].sent["correlation_id"] # f.sent["correlation_id"]

\* A request given a routing key and an id is between its two contexts while a
\* publish given neither has handed its envelope to the producer.
C12_Witness ==
    \E c, d \in Made :
        /\ c # d
        /\ calls[c].kind = "request" /\ calls[c].args.routing_key = "call.rk"
        /\ calls[c].stack = <<"H">> /\ calls[c].pc = "enter"
        /\ calls[d].kind = "publish" /\ calls[d].args.routing_key = ""
        /\ calls[d].pc = "awaiting"
        /\ calls[d].sent["correlation_id"] # calls[c].sent["correlation_id"]

\* C13: no step of a publish or request call (its start, a step of either
\* chain, the entry or exit of a context, its failure, its cancellation, its
\* return) changes the producer handle, the app id, the virtual host, the bound
\* routing key, queue or exchange, the stored message options, the reply-to or
\* either middleware list.
C13_ConfigReadOnly == [][calls' # calls => config' = config]_vars

\* After a setup, the last of the calls was cancelled inside the scoped block
\* and its contexts were exited.
C13_Witness ==
    /\ producer \in Producers /\ app_id = "app" /\ virtual_host = "/"
    /\ started = MaxCalls
    /\ \E c \in Made :
         /\ calls[c].pc = "done" /\ calls[c].exc = Cancelled
         /\ Has(calls[c].trace, <<"exit", "H">>)

\* C14: a call of StreamSub raises the configuration error exactly when exactly
\* one of group and consumer is set (given and not empty); otherwise it
\* succeeds, it warns exactly when group and consumer are set and no_ack is
\* true, the descriptor keeps the group, the consumer and no_ack as given, and
\* its last-seen id is the supplied one, or the marker of the latest entry when
\* none was supplied.
C14_StreamSubOutcome ==
    sub.args.stream # None =>
        LET a == sub.args
            g == a.group # None /\ a.group # ""
            k == a.consumer # None /\ a.consumer # "" IN
        /\ sub.raised \in {None, SetupError}
        /\ sub.raised = SetupError <=> (g /\ ~k) \/ (k /\ ~g)
        /\ sub.raised = SetupError => (~sub.warned /\ sub.self = NoStreamSub)
        /\ sub.raised = None =>
             /\ sub.warned <=> (g /\ k /\ a.no_ack)
             /\ sub.self.group = a.group /\ sub.self.consumer = a.consumer
             /\ sub.self.no_ack = a.no_ack /\ sub.self.name = a.stream
             /\ sub.self.last_id = IF a.last_id = None THEN Latest ELSE a.last_id

\* A descriptor with a group, a consumer and no_ack was constructed without a
\* last-seen id: the call warned and the id is the marker of the latest entry.
C14_Witness ==
    /\ sub.args.group = "g" /\ sub.args.consumer = "c" /\ sub.args.no_ack
    /\ sub.args.last_id = None
    /\ sub.raised = None /\ sub.warned
    /\ sub.self.last_id = "$"

\* C15: no request leaves the scoped block by falling through to the statement
\* after it: no call is over with the "unreachable" assertion error, whatever
\* the contexts' exits do.
C15_FallbackUnreachable ==
    \A c \in Made : calls[c].exc # Unreachable

\* The middlewares of the events tagged tag in trace tr, in order.
Tagged(tr, tag) ==
    [k \in DOMAIN SelectSeq(tr, LAMBDA e : e[1] = tag) |->
        SelectSeq(tr, LAMBDA e : e[1] = tag)[k][2]]

\* C16: a request enters the contexts from the last registered broker-level
\* middleware to the first, and exits them from the latest entered to the
\* first entered; once a context was exited or entering one failed, no further
\* context is entered and nothing of the block runs; when the request is over,
\* every context entered has been exited.
C16_EnterReverseExitReverse ==
    \A c \in Made :
        LET f == calls[c]
            entered == Tagged(f.trace, "enter")
            exited == Tagged(f.trace, "exit") IN
        /\ IsPrefix(entered, Reversed(broker_middlewares))
        /\ IsPrefix(exited, Reversed(entered))
        /\ \A k, l \in DOMAIN f.trace :
             (f.trace[k][1] = "exit" /\ k < l) => f.trace[l][1] = "exit"
        /\ Len(entered) < Len(broker_middlewares) =>
             ~\E k \in DOMAIN f.trace : f.trace[k][1] \in {"parse", "decode", "consume_scope"}
        /\ f.pc = "done" => exited = Reversed(entered)

\* Entering the third context failed after two were entered, and the two were
\* exited, the later one first.
C16_Witness ==
    \E c \in Made :
        /\ calls[c].pc = "done"
        /\ Tagged(calls[c].trace, "enter") = <<"K", "H">>
        /\ Tagged(calls[c].trace, "exit") = <<"H", "K">>
        /\ calls[c].exc = EnterError

\* The place of an event in the course of a request.
Phase(e) ==
    CASE e[1] = "publish_scope" -> 0
      [] e[1] = "producer" -> 1
      [] e[1] = "enter" -> 2
      [] e[1] = "parse" -> 3
      [] e[1] = "decode" -> 4
      [] e[1] = "tag" -> 5
      [] e[1] = "consume_scope" -> 6
      [] e[1] = "exit" -> 7

\* Trace tr has an event tagged tag.
Did(tr, tag) == \E k \in DOMAIN tr : tr[k][1] = tag

\* C17: the steps of a request follow one another as parse, decode, tag,
\* inbound chain: none runs before the one before it has run, or twice; they
\* run after every broker-level context was entered and before any is exited;
\* and a request that returns, returns the message it parsed, decoded and
\* tagged Response.
C17_ParseDecodeTagInbound ==
    \A c \in Made :
        LET f == calls[c] IN
        f.kind = "request" =>
            /\ \A k, l \in DOMAIN f.trace : k < l => Phase(f.trace[k]) <= Phase(f.trace[l])
            /\ \A tag \in {"parse", "decode", "tag"} :
                 Cardinality({k \in DOMAIN f.trace : f.trace[k][1] = tag}) <= 1
            /\ Did(f.trace, "parse") =>
                 Tagged(f.trace, "enter") = Reversed(broker_middlewares)
            /\ Did(f.trace, "decode") => Did(f.trace, "parse")
            /\ Did(f.trace, "tag") => Did(f.trace, "decode")
            /\ Did(f.trace, "consume_scope") => Did(f.trace, "tag")
            /\ f.returned => Did(f.trace, "tag")
            /\ Did(f.trace, "tag") <=> f.msg.source_type = "Response"
            /\ (f.pc = "done" /\ f.exc = None) =>
                 /\ f.result = "message"
                 /\ f.msg.source_type = "Response"
                 /\ f.msg.raw = f.published
                 /\ Tagged(f.trace, "consume_scope") = broker_middlewares

\* A request with an override has returned its message after both contexts
\* were entered, the reply parsed, decoded and tagged, both consume scopes run
\* and both contexts exited.
C17_Witness ==
    \E c \in Made :
        /\ calls[c].kind = "request" /\ calls[c].args.extra = Override
        /\ calls[c].pc = "done" /\ calls[c].result = "message"
        /\ calls[c].msg.source_type = "Response"
        /\ Tagged(calls[c].trace, "exit") = <<"G", "H">>

\* The second tier of the outbound chain of frame f: the override if the call
\* gave one, the broker-level middlewares otherwise.
SecondTier(f) == IF f.args.extra # <<>> THEN f.args.extra ELSE broker_middlewares

\* C18: in the outbound chain of a call no publisher-level middleware starts
\* before a middleware of the second tier that starts at all, every
\* middleware that starts does so before the producer's operation, and when
\* the producer's operation is reached every middleware of the second tier
\* and then every publisher-level middleware has started, each once.
C18_TiersNested ==
    \A c \in Made :
        LET f == calls[c]
            ran == Tagged(f.trace, "publish_scope") IN
        /\ \A k, l \in DOMAIN ran :
             (ran[k] \in Range(middlewares) /\ ran[l] \in Range(SecondTier(f))) => l < k
        /\ \A k \in DOMAIN ran : ran[k] \in Range(middlewares) \cup Range(SecondTier(f))
        /\ (\E k \in DOMAIN ran : ran[k] \in Range(middlewares)) =>
             \A m \in Range(SecondTier(f)) : \E l \in DOMAIN ran : ran[l] = m
        /\ \A k, l \in DOMAIN f.trace :
             (f.trace[k][1] = "publish_scope" /\ f.trace[l][1] = "producer") => k < l
        /\ ReachedProducer(f) =>
             /\ Len(ran) = Len(middlewares) + Len(SecondTier(f))
             /\ Range(ran) = Range(middlewares) \cup Range(SecondTier(f))

\* A publish with the override [X, Y] has reached the producer: Y and X
\* started, then the publisher-level A and B.
C18_Witness ==
    \E c \in Made :
        /\ calls[c].kind = "publish" /\ calls[c].args.extra = Override
        /\ ReachedProducer(calls[c])
        /\ Tagged(calls[c].trace, "publish_scope") = <<"Y", "X", "A", "B">>

\* The events of trace tr after the producer's operation.
Inbound(tr) == SelectSeq(tr, LAMBDA e : Phase(e) >= 2)

\* C19: the scoped consumption phase of a request does not depend on the
\* override.  Whatever the call supplied, the contexts it is to enter are the
\* broker-level middlewares from the last registered to the first, those it
\* entered are the first of them, the consume scopes that ran are broker-level
\* middlewares from the first registered on, and a request that returns has
\* entered every context and run every consume scope; no middleware of the
\* override takes part in that phase, and none of the broker level in the
\* outbound chain of a call with an override.
C19_OverrideOutboundOnly ==
    \A c \in Made :
        LET f == calls[c] IN
        (f.kind = "request" /\ f.outcome = "reply") =>
            /\ f.scope = Reversed(broker_middlewares)
            /\ IsPrefix(Tagged(f.trace, "enter"), Reversed(broker_middlewares))
            /\ IsPrefix(Tagged(f.trace, "consume_scope"), broker_middlewares)
            /\ \A k \in DOMAIN Inbound(f.trace) :
                 Inbound(f.trace)[k][2] \notin Range(f.args.extra)
            /\ (f.pc = "done" /\ f.exc = None) =>
                 /\ Tagged(f.trace, "enter") = Reversed(broker_middlewares)
                 /\ Tagged(f.trace, "consume_scope") = broker_middlewares
                 /\ Tagged(f.trace, "exit") = broker_middlewares
            /\ f.args.extra # <<>> =>
                 Range(Tagged(f.trace, "publish_scope")) \cap Range(broker_middlewares) = {}

\* A request with the override [X, Y] has returned: X and Y ran in its
\* outbound chain, G and H were entered and their consume scopes ran.
C19_Witness ==
    \E c \in Made :
        /\ calls[c].kind = "request" /\ calls[c].args.extra = Override
        /\ calls[c].pc = "done" /\ calls[c].exc = None
        /\ Tagged(calls[c].trace, "publish_scope") = <<"Y", "X", "A", "B">>
        /\ Tagged(calls[c].trace, "enter") = <<"H", "G">>
        /\ Tagged(calls[c].trace, "consume_scope") = <<"G", "H">>

\* C20: the producer whose parser parsed the reply of a request, and the one
\* whose decoder decoded it, is the producer whose request operation sent the
\* message.
C20_SameProducer ==
    \A c \in Made :
        /\ calls[c].msg.parser # None => calls[c].msg.parser = calls[c].via
        /\ calls[c].msg.decoder # None => calls[c].msg.decoder = calls[c].via

====
